---- MODULE Spec2Model ----
(***************************************************************************)
(* Model of the pyxis-defs build scripts build.py and build_json.py.       *)
(*                                                                         *)
(* Strings are sequences of one-character strings, so that path joining,   *)
(* separator replacement, lexicographic ordering, timestamp parsing and    *)
(* formatting are computed character by character as the code does.        *)
(* A run of main() is a sequential state machine; `run[s].pc` is the       *)
(* position of script s in main().  The outcomes of the external           *)
(* collaborators (cargo, pyxis, git, the filesystem) are recorded in       *)
(* `env` when first observed, so that two scripts run against the same     *)
(* environment observe the same outcomes.                                  *)
(***************************************************************************)
EXTENDS Integers, Sequences, FiniteSets, TLC

VARIABLES
    active,        \* the scripts being run in this behaviour
    manifests,     \* relative directories under projects/ holding a pyxis.toml
    run,           \* per script: the state of main()
    env,           \* outcomes of the external collaborators, once observed
    commit,        \* time model: the committer date git formats with %cI
    lastModified   \* time model: result of get_git_last_modified + strftime

vars == <<active, manifests, run, env, commit, lastModified>>

\* Largest number of manifests under projects/.
MaxProjects == 3

Scripts == {"build.py", "build_json.py"}

(***************************************************************************)
(* Strings                                                                 *)
(***************************************************************************)

\* Code point of a character (Python compares str by code point).
Ord(c) ==
    CASE c = "/" -> 47
      [] c = "\\" -> 92
      [] c = "_" -> 95
      [] c = "a" -> 97
      [] c = "b" -> 98
      [] c = "c" -> 99
      [] OTHER -> 0

\* s < t for Python strings.
RECURSIVE StrLess(_, _)
StrLess(s, t) ==
    IF t = <<>> THEN FALSE
    ELSE IF s = <<>> THEN TRUE
    ELSE IF Head(s) = Head(t) THEN StrLess(Tail(s), Tail(t))
    ELSE Ord(Head(s)) < Ord(Head(t))

\* str.replace(old, new) for single-character old and new.
ReplaceChar(s, old, new) ==
    [k \in 1..Len(s) |-> IF s[k] = old THEN new ELSE s[k]]

\* sep.join(parts)
RECURSIVE Join(_, _)
Join(parts, sep) ==
    IF parts = <<>> THEN <<>>
    ELSE IF Len(parts) = 1 THEN parts[1]
    ELSE parts[1] \o <<sep>> \o Join(Tail(parts), sep)

(***************************************************************************)
(* Project discovery, output names, sorting                                *)
(***************************************************************************)

\* Directory names used under projects/.
DirA == <<"a">>
DirB == <<"b">>
DirC == <<"c">>
DirA_B == <<"a", "_", "b">>
DirB_C == <<"b", "_", "c">>

\* The relative directories (sequences of path components) a manifest can be in:
\* a, b, a/b_c, a_b/c
RelPaths == {<<DirA>>, <<DirB>>, <<DirA, DirB_C>>, <<DirA_B, DirC>>}

\* os.sep on the platform running the script.
Separators == {"/", "\\"}

\* str(rel_path): pathlib joins the components with os.sep.
StrPath(rel, sep) == Join(rel, sep)

\* output_name = str(rel_path).replace(os.sep, "_").replace("/", "_")
OutputName(rel, sep) ==
    ReplaceChar(ReplaceChar(StrPath(rel, sep), sep, "_"), "/", "_")

\* find_pyxis_toml_files: every order in which rglob can enumerate the manifests.
Enumerations(ms) ==
    {q \in [1..Cardinality(ms) -> ms] : \A a, b \in 1..Cardinality(ms) : a # b => q[a] # q[b]}

\* The loop building (output_name, toml_file) tuples.
ProjectTuples(enum, sep) ==
    [k \in 1..Len(enum) |-> [name |-> OutputName(enum[k], sep), rel |-> enum[k]]]

\* list.sort(key=...) is stable: p goes after every element whose key is <= its own.
RECURSIVE InsertByName(_, _)
InsertByName(sorted, p) ==
    IF sorted = <<>> THEN <<p>>
    ELSE IF StrLess(p.name, Head(sorted).name) THEN <<p>> \o sorted
    ELSE <<Head(sorted)>> \o InsertByName(Tail(sorted), p)

RECURSIVE SortInto(_, _)
SortInto(acc, rest) ==
    IF rest = <<>> THEN acc ELSE SortInto(InsertByName(acc, Head(rest)), Tail(rest))

SortByNameUnsorted(projects) == projects

\* projects.sort(key=lambda x: x[0])
SortByName(projects) == SortInto(<<>>, projects)

(***************************************************************************)
(* Timestamps: datetime.fromisoformat, astimezone, strftime                *)
(***************************************************************************)

Digits == <<"0", "1", "2", "3", "4", "5", "6", "7", "8", "9">>
DigitChar(d) == Digits[d + 1]
IsDigit(c) == \E d \in 0..9 : Digits[d + 1] = c
DigitVal(c) == CHOOSE d \in 0..9 : Digits[d + 1] = c

\* %02d and %04d
Pad2(n) == <<DigitChar((n \div 10) % 10), DigitChar(n % 10)>>
Pad4(n) == Pad2(n \div 100) \o Pad2(n % 100)

\* int() of a string of digits
RECURSIVE ToInt(_)
ToInt(s) == IF s = <<>> THEN 0 ELSE 10 * ToInt(SubSeq(s, 1, Len(s) - 1)) + DigitVal(s[Len(s)])

AllDigits(s) == \A k \in 1..Len(s) : IsDigit(s[k])

\* datetime._is_leap, _days_in_month, _days_before_month, _days_before_year
IsLeap(y) == y % 4 = 0 /\ (y % 100 # 0 \/ y % 400 = 0)
DaysInMonthTable == <<31, 28, 31, 30, 31, 30, 31, 31, 30, 31, 30, 31>>
DaysInMonth(y, m) == IF m = 2 /\ IsLeap(y) THEN 29 ELSE DaysInMonthTable[m]
DaysBeforeMonthTable == <<0, 31, 59, 90, 120, 151, 181, 212, 243, 273, 304, 334>>
DaysBeforeMonth(y, m) == DaysBeforeMonthTable[m] + (IF m > 2 /\ IsLeap(y) THEN 1 ELSE 0)
DaysBeforeYear(y) == (y - 1) * 365 + (y - 1) \div 4 - (y - 1) \div 100 + (y - 1) \div 400

\* datetime._ymd2ord: proleptic Gregorian ordinal, 0001-01-01 is day 1
Ymd2Ord(y, m, d) == DaysBeforeYear(y) + DaysBeforeMonth(y, m) + d

\* datetime._ord2ymd
Ord2Ymd(ordinal) ==
    LET n0 == ordinal - 1
        n400 == n0 \div 146097
        r400 == n0 % 146097
        n100 == r400 \div 36524
        r100 == r400 % 36524
        n4 == r100 \div 1461
        r4 == r100 % 1461
        n1 == r4 \div 365
        n == r4 % 365
        year == n400 * 400 + 1 + n100 * 100 + n4 * 4 + n1
        leapyear == n1 = 3 /\ (n4 # 24 \/ n100 = 3)
        month0 == (n + 50) \div 32
        preceding0 == DaysBeforeMonthTable[month0] + (IF month0 > 2 /\ leapyear THEN 1 ELSE 0)
        month == IF preceding0 > n THEN month0 - 1 ELSE month0
        preceding ==
            IF preceding0 > n
            THEN preceding0
                 - (DaysInMonthTable[month] + (IF month = 2 /\ leapyear THEN 1 ELSE 0))
            ELSE preceding0
    IN  IF n1 = 4 \/ n100 = 4
        THEN [y |-> year - 1, mo |-> 12, d |-> 31]
        ELSE [y |-> year, mo |-> month, d |-> n - preceding + 1]

\* A datetime value: fields, whether tzinfo is set, and the UTC offset in minutes.
Datetime(y, mo, d, h, mi, s, aware, off) ==
    [y |-> y, mo |-> mo, d |-> d, h |-> h, mi |-> mi, s |-> s, aware |-> aware, off |-> off]

NoDatetime == Datetime(0, 0, 0, 0, 0, 0, FALSE, 0)

\* datetime + timedelta(seconds=delta), keeping tzinfo
AddSeconds(dt, delta) ==
    LET total == dt.h * 3600 + dt.mi * 60 + dt.s + delta
        days == Ymd2Ord(dt.y, dt.mo, dt.d) + total \div 86400
        secs == total % 86400
        date == Ord2Ymd(days)
    IN  Datetime(date.y, date.mo, date.d,
                 secs \div 3600, (secs % 3600) \div 60, secs % 60, dt.aware, dt.off)

\* git_dt.astimezone(timezone.utc): (self - offset) relabelled as UTC
AsTimezoneUtcAdding(dt) ==
    [AddSeconds(dt, dt.off * 60) EXCEPT !.aware = TRUE, !.off = 0]

AsTimezoneUtc(dt) ==
    [AddSeconds(dt, 0 - dt.off * 60) EXCEPT !.aware = TRUE, !.off = 0]

\* git_dt.replace(tzinfo=timezone.utc)
ReplaceTzUtc(dt) == [dt EXCEPT !.aware = TRUE, !.off = 0]

\* strftime("%Y-%m-%dT%H:%M:%SZ")
Strftime(dt) ==
    Pad4(dt.y) \o <<"-">> \o Pad2(dt.mo) \o <<"-">> \o Pad2(dt.d) \o <<"T">>
    \o Pad2(dt.h) \o <<":">> \o Pad2(dt.mi) \o <<":">> \o Pad2(dt.s) \o <<"Z">>

\* str.strip()
IsSpace(c) == c \in {" ", "\n", "\t", "\r"}
RECURSIVE LStrip(_)
LStrip(s) == IF s # <<>> /\ IsSpace(Head(s)) THEN LStrip(Tail(s)) ELSE s
RECURSIVE RStrip(_)
RStrip(s) ==
    IF s # <<>> /\ IsSpace(s[Len(s)]) THEN RStrip(SubSeq(s, 1, Len(s) - 1)) ELSE s
Strip(s) == RStrip(LStrip(s))

\* str.replace("Z", "+00:00")
RECURSIVE ReplaceZ(_)
ReplaceZ(s) ==
    IF s = <<>> THEN <<>>
    ELSE IF Head(s) = "Z" THEN <<"+", "0", "0", ":", "0", "0">> \o ReplaceZ(Tail(s))
    ELSE <<Head(s)>> \o ReplaceZ(Tail(s))

\* datetime.fromisoformat on the forms "YYYY-MM-DDTHH:MM:SS" and
\* "YYYY-MM-DDTHH:MM:SS+HH:MM"; ok = FALSE stands for ValueError.
FromIsoFormat(s) ==
    LET shaped ==
            /\ Len(s) \in {19, 25}
            /\ AllDigits(SubSeq(s, 1, 4)) /\ s[5] = "-"
            /\ AllDigits(SubSeq(s, 6, 7)) /\ s[8] = "-"
            /\ AllDigits(SubSeq(s, 9, 10))
            /\ AllDigits(SubSeq(s, 12, 13)) /\ s[14] = ":"
            /\ AllDigits(SubSeq(s, 15, 16)) /\ s[17] = ":"
            /\ AllDigits(SubSeq(s, 18, 19))
            /\ Len(s) = 25 =>
                /\ s[20] \in {"+", "-"}
                /\ AllDigits(SubSeq(s, 21, 22)) /\ s[23] = ":"
                /\ AllDigits(SubSeq(s, 24, 25))
        y == ToInt(SubSeq(s, 1, 4))
        mo == ToInt(SubSeq(s, 6, 7))
        d == ToInt(SubSeq(s, 9, 10))
        h == ToInt(SubSeq(s, 12, 13))
        mi == ToInt(SubSeq(s, 15, 16))
        sec == ToInt(SubSeq(s, 18, 19))
        aware == Len(s) = 25
        tzh == IF aware THEN ToInt(SubSeq(s, 21, 22)) ELSE 0
        tzm == IF aware THEN ToInt(SubSeq(s, 24, 25)) ELSE 0
        sign == IF aware /\ s[20] = "-" THEN 0 - 1 ELSE 1
        inRange ==
            /\ y >= 1 /\ mo \in 1..12 /\ d >= 1 /\ d <= DaysInMonth(y, mo)
            /\ h <= 23 /\ mi <= 59 /\ sec <= 59 /\ tzh <= 23 /\ tzm <= 59
    IN  IF shaped /\ inRange
        THEN [ok |-> TRUE, dt |-> Datetime(y, mo, d, h, mi, sec, aware, sign * (tzh * 60 + tzm))]
        ELSE [ok |-> FALSE, dt |-> NoDatetime]

(***************************************************************************)
(* git log -1 --format=%cI -- <path>                                       *)
(***************************************************************************)

\* The result of subprocess.run(["git", ...]): kind "absent" is FileNotFoundError,
\* "exit" is a completed process with a return code and its stdout.
GitResult(kind, returncode, stdout) ==
    [kind |-> kind, returncode |-> returncode, stdout |-> stdout]

\* A committer date as git knows it: local fields and the zone notation
\* ("offset" prints +HH:MM, "Z" prints Z, "naive" prints no zone).
CommitDate(y, mo, d, h, mi, s, zone, off) ==
    [y |-> y, mo |-> mo, d |-> d, h |-> h, mi |-> mi, s |-> s, zone |-> zone, off |-> off]

\* What %cI prints for a committer date, newline included.
FormatCI(c) ==
    LET a == IF c.off < 0 THEN 0 - c.off ELSE c.off
        zone == CASE c.zone = "naive" -> <<>>
                  [] c.zone = "Z" -> <<"Z">>
                  [] OTHER -> <<(IF c.off < 0 THEN "-" ELSE "+")>>
                              \o Pad2(a \div 60) \o <<":">> \o Pad2(a % 60)
    IN  Pad4(c.y) \o <<"-">> \o Pad2(c.mo) \o <<"-">> \o Pad2(c.d) \o <<"T">>
        \o Pad2(c.h) \o <<":">> \o Pad2(c.mi) \o <<":">> \o Pad2(c.s) \o zone \o <<"\n">>

\* get_git_last_modified: none = TRUE stands for a None result.
GetGitLastModifiedUnchecked(res) ==
    LET parsed == FromIsoFormat(ReplaceZ(Strip(res.stdout)))
    IN  IF parsed.dt.aware
        THEN [none |-> FALSE, dt |-> AsTimezoneUtc(parsed.dt)]
        ELSE [none |-> FALSE, dt |-> ReplaceTzUtc(parsed.dt)]

GetGitLastModified(res) ==
    IF res.kind = "absent" THEN [none |-> TRUE, dt |-> NoDatetime]
    ELSE IF res.returncode # 0 THEN [none |-> TRUE, dt |-> NoDatetime]
    ELSE IF Strip(res.stdout) = <<>> THEN [none |-> TRUE, dt |-> NoDatetime]
    ELSE LET parsed == FromIsoFormat(ReplaceZ(Strip(res.stdout)))
         IN  IF ~parsed.ok THEN [none |-> TRUE, dt |-> NoDatetime]
             ELSE IF ~parsed.dt.aware THEN [none |-> FALSE, dt |-> ReplaceTzUtc(parsed.dt)]
             ELSE [none |-> FALSE, dt |-> AsTimezoneUtc(parsed.dt)]

\* JSON null for last_modified_iso8601 (a formatted timestamp is never empty).
Null == <<>>

\* last_modified_dt.strftime(...) if last_modified_dt is not None else None
LastModifiedIso(lm) == IF lm.none THEN Null ELSE Strftime(lm.dt)

(***************************************************************************)
(* External collaborators                                                  *)
(***************************************************************************)

\* --backend values (default "json"); build_json.py always passes "json".
Backends == {"json", "rust"}

\* cargo install: exit status zero or not.
InstallOutcomes == {"ok", "fail"}

\* pyxis build: exit status zero or not.
BuildOutcomes == {"ok", "fail"}

\* State of <output_dir>/output.json after a successful build:
\*   missing     no such file
\*   unreadable  exists, open() raises PermissionError
\*   invalid     content is not JSON
\*   nonobject   valid JSON that is not an object, e.g. []
\*   nofield     {}
\*   emptyname   {"project_name": ""}
\*   named       {"project_name": <the name the manifest declares>}
ArtifactKinds ==
    {"missing", "unreadable", "invalid", "nonobject", "nofield", "emptyname", "named"}

\* The project name declared in the manifest of a directory.
DeclaredName(rel) ==
    CASE rel = <<DirA>> -> "A"
      [] rel = <<DirB>> -> "B"
      [] rel = <<DirA, DirB_C>> -> "C"
      [] OTHER -> "D"

Artifact(kind, rel) ==
    [kind |-> kind, project_name |-> IF kind = "named" THEN DeclaredName(rel) ELSE ""]

\* What git does for one lookup: not installed, non-zero exit, no output (no
\* history), output that is no timestamp, a committer date.
GitOutcomes == {"absent", "nonzero", "empty", "garbage", "dated"}

GitRun(o) ==
    CASE o = "absent" -> GitResult("absent", 0, <<>>)
      [] o = "nonzero" -> GitResult("exit", 128, <<>>)
      [] o = "empty" -> GitResult("exit", 0, <<>>)
      [] o = "garbage" -> GitResult("exit", 0, <<"?", "\n">>)
      [] OTHER -> GitResult("exit", 0, FormatCI(CommitDate(2024, 1, 1, 0, 0, 0, "offset", 300)))

\* open(index_file, "w") + json.dump: written, open fails, or the write fails
\* after open truncated the file.
WriteOutcomes == {"ok", "openfail", "writefail"}

\* An outcome is chosen when first observed and is the same for every later
\* observer; it needs recording only when a second script is to observe it.
Observe(recorded, o) == recorded \in {"unset", o}
Record(o) == IF Cardinality(active) > 1 THEN o ELSE "unset"

(***************************************************************************)
(* get_project_name                                                        *)
(***************************************************************************)

NameResult(raised, value) == [raised |-> raised, value |-> value]

\* raised = TRUE: an exception leaves get_project_name (only JSONDecodeError and
\* FileNotFoundError are caught; PermissionError from open() and AttributeError
\* from data.get on a non-dict are not).
GetProjectName(artifact) ==
    CASE artifact.kind = "missing" -> NameResult(FALSE, "")
      [] artifact.kind = "invalid" -> NameResult(FALSE, "")
      [] artifact.kind = "unreadable" -> NameResult(TRUE, "")
      [] artifact.kind = "nonobject" -> NameResult(TRUE, "")
      [] artifact.kind = "nofield" -> NameResult(FALSE, "")
      [] OTHER -> NameResult(FALSE, artifact.project_name)

(***************************************************************************)
(* main()                                                                  *)
(***************************************************************************)

DocsDir == <<"d", "o", "c", "s">>
OutputJson == <<"o", "u", "t", "p", "u", "t", ".", "j", "s", "o", "n">>

\* str(json_file.relative_to(repo_root)).replace("\\", "/")
JsonPath(name, sep) == ReplaceChar(Join(<<DocsDir, name, OutputJson>>, sep), "\\", "/")

DocumentEntry(name, path, lastmod) ==
    [name |-> name, path |-> path, last_modified_iso8601 |-> lastmod]

\* State of docs/index.json: "untouched" (as an earlier run left it, absent or
\* stale), "partial" (truncated by a failed write) or "written" with its docs.
IndexFile(state, docs) == [state |-> state, docs |-> docs]

RunInit(s) ==
    [pc |-> IF s = "build.py" THEN "args" ELSE "install",
     backend |-> "json",
     specified |-> 0,
     noInstall |-> FALSE,
     installed |-> "pending",
     sep |-> "/",
     projects |-> <<>>,
     i |-> 1,
     artifact |-> Artifact("missing", <<>>),
     extracted |-> NameResult(FALSE, ""),
     documents |-> <<>>,
     built |-> <<>>,
     trace |-> <<>>,
     raised |-> FALSE,
     exitCode |-> 0,
     writes |-> 0,
     steps |-> 0,
     indexFile |-> IndexFile("untouched", <<>>)]

RunOff == [RunInit("build_json.py") EXCEPT !.pc = "off"]

EnvInit ==
    [sep |-> "unset",
     discovered |-> FALSE,
     projects |-> <<>>,
     install |-> "unset",
     build |-> [k \in 1..MaxProjects |-> "unset"],
     artifact |-> [k \in 1..MaxProjects |-> "unset"],
     git |-> [k \in 1..MaxProjects |-> "unset"],
     write |-> "unset"]

NoCommit == CommitDate(0, 0, 0, 0, 0, 0, "naive", 0)
TimePending == [done |-> FALSE, none |-> TRUE, text |-> <<>>]

ManifestSets == {ms \in SUBSET RelPaths : Cardinality(ms) <= MaxProjects}

InitWith(scripts) ==
    /\ active = scripts
    /\ manifests \in ManifestSets
    /\ run = [s \in Scripts |-> IF s \in scripts THEN RunInit(s) ELSE RunOff]
    /\ env = EnvInit
    /\ commit = NoCommit
    /\ lastModified = TimePending

\* One script is run.
Init == \E s \in Scripts : InitWith({s})

\* The scripts are separate processes that share no state.  When both are run,
\* they are stepped alternately, build.py first, until one of them has ended.
Other(s) == IF s = "build.py" THEN "build_json.py" ELSE "build.py"
Turn(s) ==
    \/ run[Other(s)].pc \in {"off", "exit"}
    \/ s = "build.py" /\ run[s].steps <= run[Other(s)].steps
    \/ s = "build_json.py" /\ run[s].steps < run[Other(s)].steps

\* One more statement block of main() has been executed.
Tick(r) == [r EXCEPT !.steps = @ + 1]

\* sys.exit(code), or falling off the end of main() with code 0.
Exit(r, code) == [r EXCEPT !.pc = "exit", !.exitCode = code]

\* An uncaught exception: traceback, exit status 1.
Traceback(r) == [Exit(r, 1) EXCEPT !.raised = TRUE]

\* The steps taken so far: <<step, position in the sorted order, what the step
\* observed>>; the index write is recorded at position 0.
Step(r, step, observed) == [r EXCEPT !.trace = Append(@, <<step, r.i, observed>>)]

\* "if not build_pyxis_project(...)": CalledProcessError was caught
BuildFailedNever(o) == FALSE

BuildFailed(o) == o = "fail"

\* json_file.exists()
JsonFileExistsAlways(artifact) == TRUE

JsonFileExists(artifact) == artifact.kind # "missing"

\* build.py collects metadata and writes the index only "if backend == 'json'";
\* build_json.py always does.
CollectsMetadataInverted(s, backend) == s = "build_json.py" \/ backend # "json"

CollectsMetadata(s, backend) == s = "build_json.py" \/ backend = "json"

NextProjectWritesEarly(s, r) == [r EXCEPT !.pc = "write"]

\* End of one iteration of "for output_name, toml_file in projects", and what
\* follows the loop.
NextProject(s, r) ==
    IF r.i < Len(r.projects) THEN [r EXCEPT !.i = @ + 1, !.pc = "build"]
    ELSE IF CollectsMetadata(s, r.backend) THEN [r EXCEPT !.pc = "write"]
    ELSE Exit(r, 0)

\* The exit status of parser.error(...)
ArgsStatusOne(specified) == IF specified > 1 THEN 1 ELSE 0

ArgsStatus(specified) == IF specified > 1 THEN 2 ELSE 0

\* build.py: parser.parse_args() and the mutual-exclusion check.  `specified`
\* counts the options among --branch, --tag, --rev, --path that were given; it
\* is kept when the command line is rejected (an accepted one only selects the
\* cargo arguments).
ParseArgs ==
    \E s \in active :
    /\ Turn(s)
    /\ s = "build.py"
    /\ run[s].pc = "args"
    /\ \E specified \in 0..4, noInstall \in BOOLEAN, backend \in Backends :
        run' = [run EXCEPT ![s] = Tick(
                    IF ArgsStatus(specified) # 0
                    THEN Exit([@ EXCEPT !.specified = specified], ArgsStatus(specified))
                    ELSE [@ EXCEPT !.pc = "install", !.backend = backend,
                                   !.noInstall = noInstall])]
    /\ UNCHANGED <<active, manifests, env, commit, lastModified>>

\* install_pyxis(), skipped by build.py --no-install.
Install ==
    \E s \in active :
    /\ Turn(s)
    /\ run[s].pc = "install"
    /\ IF run[s].noInstall
       THEN /\ run' = [run EXCEPT ![s] = Tick([@ EXCEPT !.pc = "discover", !.installed = "skipped"])]
            /\ env' = env
       ELSE \E o \in InstallOutcomes :
            /\ Observe(env.install, o)
            /\ env' = [env EXCEPT !.install = Record(o)]
            /\ run' = [run EXCEPT ![s] = Tick(
                        IF o = "ok" THEN [@ EXCEPT !.pc = "discover", !.installed = "ok"]
                        ELSE Exit([@ EXCEPT !.installed = "fail"], 1))]
    /\ UNCHANGED <<active, manifests, commit, lastModified>>

\* find_pyxis_toml_files, the empty check, the tuple loop and the sort.  A second
\* script sees the manifests in the same order, up to what sorting erases.
Discover ==
    \E s \in active :
    /\ Turn(s)
    /\ run[s].pc = "discover"
    /\ \E sep \in Separators, enum \in Enumerations(manifests) :
        LET projects == SortByName(ProjectTuples(enum, sep))
        IN  /\ Observe(env.sep, sep)
            /\ env.discovered => env.projects = projects
            /\ env' = [env EXCEPT !.sep = Record(sep),
                                  !.discovered = Cardinality(active) > 1,
                                  !.projects = IF Cardinality(active) > 1 THEN projects ELSE <<>>]
            /\ run' = [run EXCEPT ![s] = Tick(
                        IF Len(enum) = 0 THEN Exit(@, 1)
                        ELSE [@ EXCEPT !.pc = "build", !.sep = sep, !.i = 1,
                                       !.projects = projects])]
    /\ UNCHANGED <<active, manifests, commit, lastModified>>

\* build_pyxis_project for projects[i] and the check of its result.
Build ==
    \E s \in active :
    /\ Turn(s)
    /\ run[s].pc = "build"
    /\ LET k == run[s].i
           collects == CollectsMetadata(s, run[s].backend)
       IN  \E o \in BuildOutcomes, a \in ArtifactKinds :
            /\ Observe(env.build[k], o)
            /\ IF collects /\ ~BuildFailed(o) THEN Observe(env.artifact[k], a) ELSE a = "missing"
            /\ env' = [env EXCEPT !.build[k] = Record(o),
                                  !.artifact[k] = IF collects /\ ~BuildFailed(o)
                                                  THEN Record(a) ELSE @]
            /\ run' = [run EXCEPT ![s] = Tick(
                        LET r == Step(@, "build", o) IN
                        IF BuildFailed(o) THEN Exit(r, 1)
                        ELSE LET b == [r EXCEPT !.built = Append(@, r.projects[k].name),
                                                !.artifact = Artifact(a, r.projects[k].rel)]
                             IN  IF collects THEN [b EXCEPT !.pc = "exists"]
                                 ELSE NextProject(s, b))]
    /\ UNCHANGED <<active, manifests, commit, lastModified>>

\* if not json_file.exists(): sys.exit(1)
CheckExists ==
    \E s \in active :
    /\ Turn(s)
    /\ run[s].pc = "exists"
    /\ LET r == Step(run[s], "exists", run[s].artifact.kind)
       IN  run' = [run EXCEPT ![s] = Tick(
                    IF ~JsonFileExists(r.artifact) THEN Exit(r, 1)
                    ELSE [r EXCEPT !.pc = "extract"])]
    /\ UNCHANGED <<active, manifests, env, commit, lastModified>>

\* project_name = get_project_name(json_file); if not project_name: sys.exit(1)
Extract ==
    \E s \in active :
    /\ Turn(s)
    /\ run[s].pc = "extract"
    /\ LET r == Step(run[s], "extract", run[s].artifact.kind)
           res == GetProjectName(r.artifact)
           e == [r EXCEPT !.extracted = res]
       IN  run' = [run EXCEPT ![s] = Tick(
                    IF res.raised THEN Traceback(e)
                    ELSE IF res.value = "" THEN Exit(e, 1)
                    ELSE [e EXCEPT !.pc = "lookup"])]
    /\ UNCHANGED <<active, manifests, env, commit, lastModified>>

\* get_git_last_modified(input_dir), strftime, documents.append(...)
LookupAppend ==
    \E s \in active :
    /\ Turn(s)
    /\ run[s].pc = "lookup"
    /\ LET k == run[s].i
       IN  \E g \in GitOutcomes :
            /\ Observe(env.git[k], g)
            /\ env' = [env EXCEPT !.git[k] = Record(g)]
            /\ LET r == Step(run[s], "lookup", g)
                   lm == GetGitLastModified(GitRun(g))
                   doc == DocumentEntry(r.extracted.value,
                                        JsonPath(r.projects[k].name, r.sep),
                                        LastModifiedIso(lm))
               IN  run' = [run EXCEPT ![s] = Tick(
                            NextProject(s, [r EXCEPT !.documents = Append(@, doc)]))]
    /\ UNCHANGED <<active, manifests, commit, lastModified>>

\* The index.json block after the loop.
WriteIndex ==
    \E s \in active :
    /\ Turn(s)
    /\ run[s].pc = "write"
    /\ \E w \in WriteOutcomes :
        /\ Observe(env.write, w)
        /\ env' = [env EXCEPT !.write = Record(w)]
        /\ run' = [run EXCEPT ![s] = Tick(
                    LET r == [@ EXCEPT !.writes = @ + 1,
                                       !.trace = Append(@, <<"write", 0, w>>)]
                    IN  CASE w = "ok" ->
                               Exit([r EXCEPT !.indexFile = IndexFile("written", r.documents)], 0)
                          [] w = "openfail" -> Exit(r, 1)
                          [] OTHER ->
                               Exit([r EXCEPT !.indexFile = IndexFile("partial", <<>>)], 1))]
    /\ UNCHANGED <<active, manifests, commit, lastModified>>

Next ==
    \/ ParseArgs
    \/ Install
    \/ Discover
    \/ Build
    \/ CheckExists
    \/ Extract
    \/ LookupAppend
    \/ WriteIndex

Spec == Init /\ [][Next]_vars

\* Both scripts are run against the same repository and the same environment.
InitBoth == InitWith(Scripts)

SpecBoth == InitBoth /\ [][Next]_vars

(***************************************************************************)
(* get_git_last_modified and strftime applied to one committer date        *)
(***************************************************************************)

Years == {2000, 2023, 2024, 2100}
Months == {1, 2, 3, 12}
Days == {1, 28, 29, 31}
Hours == {0, 4, 19, 23}
Minutes == {0, 30, 59}
Seconds == {0, 59}
\* UTC offsets in minutes: -12:00, -05:30, 00:00, +05:00, +05:30, +14:00
Offsets == {0 - 720, 0 - 330, 0, 300, 330, 840}

CommitDates ==
    {CommitDate(y, mo, d, h, mi, s, z[1], z[2]) :
        y \in Years, mo \in Months, d \in Days, h \in Hours, mi \in Minutes, s \in Seconds,
        z \in ({"offset"} \X Offsets) \cup {<<"naive", 0>>, <<"Z", 0>>}}

TimeInit ==
    /\ active = {}
    /\ manifests = {}
    /\ run = [s \in Scripts |-> RunOff]
    /\ env = EnvInit
    /\ commit \in CommitDates
    /\ lastModified = TimePending

\* lines 269-275 of main() for a git that prints FormatCI(commit)
Normalize ==
    /\ ~lastModified.done
    /\ LET lm == GetGitLastModified(GitResult("exit", 0, FormatCI(commit)))
       IN  lastModified' = [done |-> TRUE, none |-> lm.none, text |-> LastModifiedIso(lm)]
    /\ UNCHANGED <<active, manifests, run, env, commit>>

SpecTime == TimeInit /\ [][Normalize]_vars

(***************************************************************************)
(* Properties                                                              *)
(***************************************************************************)

Ended(s) == s \in active /\ run[s].pc = "exit"
NumProjects(s) == Len(run[s].projects)
Entries(s) == {run[s].trace[j] : j \in 1..Len(run[s].trace)}
Written(s) == run[s].indexFile.state = "written"

\* The run collects metadata and is to write the index.
JsonRun(s) == s = "build_json.py" \/ run[s].backend = "json"

BuildOkAt(s, k) == <<"build", k, "ok">> \in Entries(s)
ExistsOkAt(s, k) == \E a \in ArtifactKinds \ {"missing"} : <<"exists", k, a>> \in Entries(s)
ExtractOkAt(s, k) == <<"extract", k, "named">> \in Entries(s)

AllBuildsOk(s) == \A k \in 1..NumProjects(s) : BuildOkAt(s, k)
AllExtractedOk(s) == \A k \in 1..NumProjects(s) : ExistsOkAt(s, k) /\ ExtractOkAt(s, k)
WriteOk(s) == <<"write", 0, "ok">> \in Entries(s)

\* A fatal per-project outcome: the build failed, output.json is missing, or no
\* non-empty project_name came out of it.
EntryFailed(e) ==
    \/ e[1] = "build" /\ e[3] = "fail"
    \/ e[1] = "exists" /\ e[3] = "missing"
    \/ e[1] = "extract" /\ e[3] # "named"

BuildFailure(s) == \E e \in Entries(s) : e[1] = "build" /\ e[3] = "fail"
ExtractionFailure(s) == \E e \in Entries(s) : e[1] \in {"exists", "extract"} /\ EntryFailed(e)
WriteFailure(s) == \E e \in Entries(s) : e[1] = "write" /\ e[3] # "ok"
DiscoveryFailure(s) ==
    Ended(s) /\ run[s].installed \in {"ok", "skipped"} /\ manifests = {}
InstallFailure(s) == run[s].installed = "fail"

FullSuccess(s) ==
    /\ NumProjects(s) >= 1
    /\ AllBuildsOk(s)
    /\ JsonRun(s) => AllExtractedOk(s) /\ WriteOk(s)

\* C1: index.json is written only after every discovered project has passed
\* build, the output.json existence check and project_name extraction; if any
\* project fails one of those steps, index.json is not written in that run.
C1_AllOrNothing ==
    \A s \in active :
        /\ run[s].writes > 0 =>
            /\ {run[s].projects[k].rel : k \in 1..NumProjects(s)} = manifests
            /\ NumProjects(s) = Cardinality(manifests)
            /\ AllBuildsOk(s) /\ AllExtractedOk(s)
        /\ (\E e \in Entries(s) : EntryFailed(e)) =>
            run[s].writes = 0 /\ run[s].indexFile.state = "untouched"
        /\ run[s].indexFile.state # "untouched" => run[s].writes > 0

C1_Witness ==
    \E s \in active : Written(s) /\ NumProjects(s) >= 2 /\ run[s].writes = 1

\* C2 as stated: the docs array has as many entries as there are manifests
\* exactly when every build succeeds; a build failure yields no index.
C2_AsStated ==
    \A s \in active :
        Ended(s) /\ JsonRun(s) /\ NumProjects(s) >= 1 =>
            /\ AllBuildsOk(s) <=>
                (Written(s) /\ Len(run[s].indexFile.docs) = Cardinality(manifests))
            /\ BuildFailure(s) => run[s].indexFile.state = "untouched"

\* C2: the index is written with a docs array as long as the number of
\* manifests exactly when every build, every output.json check, every
\* project_name extraction and the write itself succeed in a JSON run; a build
\* failure yields no index write.
C2_DocsLength ==
    \A s \in active :
        Ended(s) /\ NumProjects(s) >= 1 =>
            /\ (JsonRun(s) /\ AllBuildsOk(s) /\ AllExtractedOk(s) /\ WriteOk(s)) <=>
                (Written(s) /\ Len(run[s].indexFile.docs) = Cardinality(manifests))
            /\ Written(s) => Len(run[s].indexFile.docs) = Cardinality(manifests)
            /\ BuildFailure(s) => run[s].writes = 0 /\ run[s].indexFile.state = "untouched"

C2_Witness ==
    \E s \in active :
        /\ Ended(s) /\ Written(s)
        /\ Cardinality(manifests) = 2 /\ Len(run[s].indexFile.docs) = 2

\* s <= t in lexicographic order of code points: s is a prefix of t, or s is
\* smaller at the first position where they differ.
LexLeq(s, t) ==
    \/ Len(s) <= Len(t) /\ \A k \in 1..Len(s) : s[k] = t[k]
    \/ \E p \in 1..Len(s) :
        /\ p <= Len(t)
        /\ \A k \in 1..(p - 1) : s[k] = t[k]
        /\ Ord(s[p]) < Ord(t[p])

\* The relative path with every separator replaced by "_".
UnderscoreName(rel) == Join(rel, "_")

IndexPath(name) == DocsDir \o <<"/">> \o name \o <<"/">> \o OutputJson

\* C3: the output name is the relative path with its separators replaced by
\* "_", whatever the platform separator, and the docs array lists the projects
\* in ascending order of output name, whatever the enumeration order.
C3_SortedNames ==
    \A s \in active :
        /\ \A k \in 1..NumProjects(s) :
            run[s].projects[k].name = UnderscoreName(run[s].projects[k].rel)
        /\ \A j, k \in 1..NumProjects(s) :
            j < k => LexLeq(run[s].projects[j].name, run[s].projects[k].name)
        /\ Written(s) =>
            /\ Len(run[s].indexFile.docs) = NumProjects(s)
            /\ \A k \in 1..NumProjects(s) :
                run[s].indexFile.docs[k].path = IndexPath(run[s].projects[k].name)

C3_Witness ==
    \E s \in active :
        /\ Written(s) /\ run[s].sep = "\\"
        /\ Len(run[s].indexFile.docs) = 3
        /\ run[s].projects[1].name # run[s].projects[2].name

C5_NeverRaises ==
    \A s \in active :
        (run[s].trace # <<>> /\ run[s].trace[Len(run[s].trace)][1] = "extract") =>
            /\ ~run[s].extracted.raised
            /\ run[s].extracted.value =
                (IF run[s].artifact.kind = "named" THEN run[s].artifact.project_name ELSE "")

GitFailures == {"absent", "nonzero", "empty", "garbage"}

\* C6: when the history lookup of the project at position k fails (git absent,
\* non-zero exit, no output, unparseable output), the entry of k is appended
\* with a null last_modified_iso8601 and the run goes on to the project at
\* k + 1 or, after the last project, to the index write.
C6_LookupNonFatal ==
    \A s \in active :
        \A j \in 1..Len(run[s].trace) :
            LET e == run[s].trace[j]
                k == e[2]
            IN  (e[1] = "lookup" /\ e[3] \in GitFailures) =>
                    /\ Len(run[s].documents) >= k
                    /\ run[s].documents[k].last_modified_iso8601 = Null
                    /\ run[s].documents[k].name = DeclaredName(run[s].projects[k].rel)
                    /\ j = Len(run[s].trace) =>
                        \/ run[s].pc = "build" /\ run[s].i = k + 1
                        \/ run[s].pc = "write" /\ k = NumProjects(s)
                    /\ j < Len(run[s].trace) =>
                        \/ run[s].trace[j + 1][1] = "build" /\ run[s].trace[j + 1][2] = k + 1
                        \/ run[s].trace[j + 1][1] = "write" /\ k = NumProjects(s)
                    /\ Written(s) => run[s].indexFile.docs[k].last_modified_iso8601 = Null

C6_Witness ==
    \E s \in active :
        /\ Written(s)
        /\ <<"lookup", 1, "garbage">> \in Entries(s)
        /\ <<"lookup", 2, "absent">> \in Entries(s)
        /\ run[s].indexFile.docs[1].last_modified_iso8601 = Null

\* The Gregorian calendar.
LeapYear(y) == y % 400 = 0 \/ (y % 4 = 0 /\ y % 100 # 0)
MonthLength(y, m) ==
    IF m = 2 THEN (IF LeapYear(y) THEN 29 ELSE 28)
    ELSE IF m \in {4, 6, 9, 11} THEN 30 ELSE 31
ValidDate(c) == c.d <= MonthLength(c.y, c.mo)

Date(y, mo, d) == [y |-> y, mo |-> mo, d |-> d]
DayBefore(c) ==
    IF c.d > 1 THEN Date(c.y, c.mo, c.d - 1)
    ELSE IF c.mo > 1 THEN Date(c.y, c.mo - 1, MonthLength(c.y, c.mo - 1))
    ELSE Date(c.y - 1, 12, 31)
DayAfter(c) ==
    IF c.d < MonthLength(c.y, c.mo) THEN Date(c.y, c.mo, c.d + 1)
    ELSE IF c.mo < 12 THEN Date(c.y, c.mo + 1, 1)
    ELSE Date(c.y + 1, 1, 1)

\* Local time minus the offset, borrowing from or carrying into the date.
\* A naive date has no offset; "Z" is offset zero.
UtcText(c) ==
    LET off == IF c.zone = "offset" THEN c.off ELSE 0
        t == c.h * 60 + c.mi - off
        date == IF t < 0 THEN DayBefore(c) ELSE IF t >= 1440 THEN DayAfter(c)
                ELSE Date(c.y, c.mo, c.d)
        m == IF t < 0 THEN t + 1440 ELSE IF t >= 1440 THEN t - 1440 ELSE t
    IN  Pad4(date.y) \o <<"-">> \o Pad2(date.mo) \o <<"-">> \o Pad2(date.d) \o <<"T">>
        \o Pad2(m \div 60) \o <<":">> \o Pad2(m % 60) \o <<":">> \o Pad2(c.s) \o <<"Z">>

ExampleCommit == CommitDate(2024, 1, 1, 0, 0, 0, "offset", 300)
ExampleText ==
    <<"2", "0", "2", "3", "-", "1", "2", "-", "3", "1", "T",
      "1", "9", ":", "0", "0", ":", "0", "0", "Z">>

\* C7: a committer date with offset d is emitted as the same instant in UTC
\* (local time minus d, with day, month and year borrow, "Z" suffix), so
\* 2024-01-01T00:00:00+05:00 becomes 2023-12-31T19:00:00Z; a naive one is
\* emitted with its fields unchanged and a "Z" suffix; a date that does not
\* exist is emitted as null.
C7_UtcNormalization ==
    lastModified.done =>
        /\ ValidDate(commit) => ~lastModified.none /\ lastModified.text = UtcText(commit)
        /\ ~ValidDate(commit) => lastModified.none /\ lastModified.text = Null
        /\ commit = ExampleCommit => lastModified.text = ExampleText

C7_Witness ==
    lastModified.done /\ commit = ExampleCommit /\ lastModified.text = ExampleText

NamesUpTo(s, n) == [m \in 1..n |-> run[s].projects[m].name]

\* C8 as stated: after a build or extraction failure at position k no step of a
\* later project is started, and the run leaves no partial output behind.
C8_AsStated ==
    \A s \in active :
        \A j \in 1..Len(run[s].trace) :
            EntryFailed(run[s].trace[j]) =>
                /\ j = Len(run[s].trace)
                /\ run[s].pc = "exit" /\ run[s].exitCode = 1
                /\ run[s].writes = 0 /\ run[s].indexFile.state = "untouched"
                /\ run[s].built = <<>>

\* C8: after a build or extraction failure at position k the run ends at once
\* with exit code 1: no step of a later project is started and index.json is
\* not written; the output directories built before the failure (those of the
\* projects before k, and that of k when its build succeeded) stay in place.
C8_AbortImmediately ==
    \A s \in active :
        \A j \in 1..Len(run[s].trace) :
            LET e == run[s].trace[j]
            IN  EntryFailed(e) =>
                    /\ j = Len(run[s].trace)
                    /\ run[s].pc = "exit" /\ run[s].exitCode = 1
                    /\ run[s].writes = 0 /\ run[s].indexFile.state = "untouched"
                    /\ Len(run[s].documents) = (IF JsonRun(s) THEN e[2] - 1 ELSE 0)
                    /\ run[s].built =
                        NamesUpTo(s, IF e[1] = "build" THEN e[2] - 1 ELSE e[2])

C8_Witness ==
    \E s \in active :
        /\ NumProjects(s) = 3
        /\ <<"extract", 2, "nofield">> \in Entries(s)
        /\ Len(run[s].built) = 2

BothEnded == active = Scripts /\ \A s \in Scripts : run[s].pc = "exit"

SameRun ==
    /\ run["build.py"].trace = run["build_json.py"].trace
    /\ run["build.py"].exitCode = run["build_json.py"].exitCode
    /\ run["build.py"].indexFile = run["build_json.py"].indexFile

InstallAlike ==
    (run["build.py"].installed \in {"ok", "skipped"}) <=> (run["build_json.py"].installed = "ok")

C10_DistinctNames ==
    \A s \in active :
        /\ \A j, k \in 1..NumProjects(s) :
            j # k => run[s].projects[j].name # run[s].projects[k].name
        /\ \A j, k \in 1..Len(run[s].built) : j # k => run[s].built[j] # run[s].built[k]
        /\ \A j, k \in 1..Len(run[s].documents) :
            j # k => run[s].documents[j].path # run[s].documents[k].path

====
